---- MODULE Spec2Model ----
(***************************************************************************)
(* Product-sync server (broken-version/server/server.js) as a state        *)
(* machine.  Every Express handler is cut at its awaits: the read of       *)
(* products.json, the adapter's setTimeout delay, and the write of         *)
(* products.json.  Between two awaits a handler runs uninterrupted (Node's *)
(* single-threaded event loop), so each piece is one action.               *)
(*                                                                         *)
(* The page (client/src/App.jsx, components/ProductList.jsx) is modelled   *)
(* by its sync calls: the click, the request of the call, and the answer   *)
(* resolving or rejecting the call.                                        *)
(*                                                                         *)
(* Date.now() is the variable now.  It advances in steps of ClockStep ms,  *)
(* so that the 60000 ms window and expiry are met exactly on a step.       *)
(***************************************************************************)
EXTENDS Integers, Sequences, FiniteSets, TLC

VARIABLES
    now,                 \* Date.now()
    tiktokRequestCount,  \* server.js:16
    tiktokResetTime,     \* server.js:17
    instagramTokens,     \* server.js:21, token -> time of issue
    db,                  \* products.json, the array under "products"
    reqs,                \* the handlers in flight and their answers
    nextId,              \* number of uuids drawn so far, plus one
    accepted,            \* history: short-video syncs accepted in the current window
    syncingStates,       \* ProductList's state: "productId-platform" -> in flight
    products,            \* App's state: the product list shown
    instagramToken,      \* App's state: the token sent with photo-share syncs
    calls                \* App.handleSync calls, one per request slot

\* The browser's part of the state
cvars == <<syncingStates, products, instagramToken, calls>>

vars == <<now, tiktokRequestCount, tiktokResetTime, instagramTokens, db, reqs, nextId, accepted, cvars>>

----
\* Program constants (server.js:18-22)
TIKTOK_RATE_LIMIT == 3
TIKTOK_RESET_INTERVAL == 60000
INSTAGRAM_TOKEN_EXPIRY == 1 * 60 * 1000

\* Bounds of the model
MaxTicks == 3
MaxProducts == 3
MaxSlots == 2
MaxStored == 1

ClockStep == TIKTOK_RESET_INTERVAL \div 2
Slots == 1..MaxSlots

----
\* JavaScript values that the code converts or tests for truthiness
Null == [t |-> "null"]
Undefined == [t |-> "undefined"]
NaN == [t |-> "number", nan |-> TRUE]
Num(n) == [t |-> "number", n |-> n]
Str(s) == [t |-> "string", s |-> s]

typeof(x) == IF x.t = "null" THEN "object" ELSE x.t

IsNaN(x) == x.t = "number" /\ "nan" \in DOMAIN x

\* !x is false exactly for these
Truthy(x) ==
    /\ x.t \notin {"null", "undefined"}
    /\ ~(x.t = "string" /\ x.s = "")
    /\ ~IsNaN(x)
    /\ ~(x.t = "number" /\ "n" \in DOMAIN x /\ x.n = 0)

\* a || b
OrElse(a, b) == IF Truthy(a) THEN a ELSE b

\* Number.prototype.toString / String.prototype.toString (null has none: the
\* caller tests for it and throws)
toString(x) ==
    IF x.t = "string" THEN x
    ELSE IF IsNaN(x) THEN Str("NaN")
    ELSE Str(ToString(x.n))

\* parseFloat on the request body's price: numeric text parses, other text is NaN
parseFloat(x) ==
    IF x.t = "number" THEN x
    ELSE IF x.t = "string" /\ x.s = "10" THEN Num(10)
    ELSE IF x.t = "string" /\ x.s = "25" THEN Num(25)
    ELSE NaN

\* new Date().toISOString()
toISOString(ms) == Str("T" \o ToString(ms))

\* JSON.stringify followed by JSON.parse of one value: NaN is written as null
jsonValue(x) == IF IsNaN(x) THEN Null ELSE x

----
\* The store: products.json holds { products: [...] }
Platforms == {"shopify", "tiktok", "instagram"}

PendingStatus == [status |-> "pending", error |-> Null, lastSync |-> Null]

jsonProduct(p) == [p EXCEPT !.price = jsonValue(p.price)]

\* writeDatabase then readDatabase: what a later read of the file returns
jsonDocument(d) == [i \in 1..Len(d) |-> jsonProduct(d[i])]

\* db.products.find(p => p.id === productId): index of the first match, 0 if none
findIndex(d, productId) ==
    IF \E i \in 1..Len(d) : d[i].id = productId
    THEN CHOOSE i \in 1..Len(d) :
            /\ d[i].id = productId
            /\ \A j \in 1..(i - 1) : d[j].id # productId
    ELSE 0

\* Array.prototype.splice(start, 1) with a 0-based start
splice(d, start) ==
    [i \in 1..(Len(d) - 1) |-> IF i <= start THEN d[i] ELSE d[i + 1]]

Ids(d) == {d[i].id : i \in 1..Len(d)}

\* uuidv4(): a fresh id on every call
uuid(n) == "p" \o ToString(n)

----
\* Handler state.  Each slot is one HTTP request in flight or answered: the
\* request's parameters, the handler's locals (db, priceToSend, syncResult) and
\* the response.  Three members are history, read by no action: at (the clock
\* when the adapter ran), seen (short-video syncs already accepted in the window
\* in which this one was evaluated) and before (the target platform's persisted
\* status when the handler read the store).
NoResult == [success |-> FALSE, error |-> Undefined, data |-> Undefined]

IdleReq ==
    [pc |-> "idle", kind |-> "none", platform |-> "", productId |-> "",
     token |-> Undefined, db |-> <<>>, priceToSend |-> Undefined,
     syncResult |-> NoResult, at |-> 0, seen |-> 0, before |-> PendingStatus,
     response |-> [status |-> 0]]

Free(r) == reqs[r].pc \in {"idle", "done"}

\* res.json({ success, data, error }): JSON.stringify drops the members that are
\* undefined
syncResponse(syncResult) ==
    [k \in {"success"} \cup {m \in {"data", "error"} : syncResult[m] # Undefined} |->
        IF k = "success" THEN syncResult.success ELSE syncResult[k]]

\* res.status(status).json(body) ends the handler; its copy of the document
\* goes out of scope
Respond(r, req, status, body) ==
    reqs' = [reqs EXCEPT ![r] =
                [req EXCEPT !.pc = "done",
                            !.db = <<>>,
                            !.response = [status |-> status, body |-> body]]]

----
\* Credential registry (server.js:45-57)
NoTokens == [k \in {} |-> 0]

tokenName(ms) == "instagram_token_" \o ToString(ms)

\* generateInstagramToken(): the registry after the call; the token is tokenName(t)
generateInstagramToken(tokens, t) ==
    [k \in DOMAIN tokens \cup {tokenName(t)} |->
        IF k = tokenName(t) THEN t ELSE tokens[k]]

isInstagramTokenValidNoLookup(token, tokens, t) ==
    IF ~Truthy(token)
    THEN FALSE
    ELSE IF token.t = "string" /\ token.s \in DOMAIN tokens
    THEN (t - tokens[token.s]) < INSTAGRAM_TOKEN_EXPIRY
    ELSE TRUE

isInstagramTokenValidAtExpiry(token, tokens, t) ==
    IF ~Truthy(token) \/ token.t # "string" \/ token.s \notin DOMAIN tokens
    THEN FALSE
    ELSE (t - tokens[token.s]) <= INSTAGRAM_TOKEN_EXPIRY

isInstagramTokenValid(token, tokens, t) ==
    IF ~Truthy(token) \/ token.t # "string" \/ token.s \notin DOMAIN tokens
    THEN FALSE
    ELSE (t - tokens[token.s]) < INSTAGRAM_TOKEN_EXPIRY

----
\* Platform adapters (server.js:166-244), the part of each after its delay

mockShopifyAPI(productData) ==
    IF typeof(productData.price) # "number"
    THEN [success |-> FALSE, error |-> Str("Invalid data type: price must be a number")]
    ELSE [success |-> TRUE, error |-> Undefined]

\* product.price.toString() on a null price is a TypeError
shopifyThrows(product) == product.price.t \in {"null", "undefined"}

shopifyPriceToSend(product) == toString(product.price)

syncToShopify(product) ==
    LET priceToSend == shopifyPriceToSend(product)
        mockShopifyResponse == mockShopifyAPI([product EXCEPT !.price = priceToSend])
    IN  IF ~mockShopifyResponse.success
        THEN [success |-> FALSE, error |-> mockShopifyResponse.error, data |-> Undefined]
        ELSE [success |-> TRUE, error |-> Undefined,
              data |-> [shopifyId |-> "shopify_" \o product.id,
                        message |-> "Product synced to Shopify successfully"]]

tiktokWindowKeepsStart(count, resetTime, t) ==
    IF t - resetTime > TIKTOK_RESET_INTERVAL
    THEN [count |-> 0, resetTime |-> resetTime]
    ELSE [count |-> count, resetTime |-> resetTime]

\* The lazy window reset at the head of syncToTikTok
tiktokWindow(count, resetTime, t) ==
    IF t - resetTime > TIKTOK_RESET_INTERVAL
    THEN [count |-> 0, resetTime |-> t]
    ELSE [count |-> count, resetTime |-> resetTime]

tiktokDeniedOffByOne(count) == count > TIKTOK_RATE_LIMIT

tiktokDenied(count) == count >= TIKTOK_RATE_LIMIT

syncToTikTokCountsDenied(product, count, resetTime, t) ==
    LET w == tiktokWindow(count, resetTime, t)
    IN  IF tiktokDenied(w.count)
        THEN [count |-> w.count + 1, resetTime |-> w.resetTime,
              result |-> [success |-> FALSE, error |-> Str("Rate limit exceeded"),
                          data |-> Undefined]]
        ELSE [count |-> w.count + 1, resetTime |-> w.resetTime,
              result |-> [success |-> TRUE, error |-> Undefined,
                          data |-> [tiktokId |-> "tiktok_" \o product.id,
                                    message |-> "Product synced to TikTok successfully"]]]

syncToTikTokPerProduct(product, count, resetTime, t) ==
    LET w == tiktokWindow(count, resetTime, t)
    IN  IF product.id = uuid(1) /\ tiktokDenied(w.count)
        THEN [count |-> w.count, resetTime |-> w.resetTime,
              result |-> [success |-> FALSE, error |-> Str("Rate limit exceeded"),
                          data |-> Undefined]]
        ELSE [count |-> IF product.id = uuid(1) THEN w.count + 1 ELSE w.count,
              resetTime |-> w.resetTime,
              result |-> [success |-> TRUE, error |-> Undefined,
                          data |-> [tiktokId |-> "tiktok_" \o product.id,
                                    message |-> "Product synced to TikTok successfully"]]]

\* syncToTikTok: the limiter after the call and the result
syncToTikTok(product, count, resetTime, t) ==
    LET w == tiktokWindow(count, resetTime, t)
    IN  IF tiktokDenied(w.count)
        THEN [count |-> w.count, resetTime |-> w.resetTime,
              result |-> [success |-> FALSE, error |-> Str("Rate limit exceeded"),
                          data |-> Undefined]]
        ELSE [count |-> w.count + 1, resetTime |-> w.resetTime,
              result |-> [success |-> TRUE, error |-> Undefined,
                          data |-> [tiktokId |-> "tiktok_" \o product.id,
                                    message |-> "Product synced to TikTok successfully"]]]

syncToInstagram(product, token, tokens, t) ==
    IF ~isInstagramTokenValid(token, tokens, t)
    THEN [success |-> FALSE,
          error |-> Str("Authentication failed: Token expired or invalid"),
          data |-> Undefined]
    ELSE [success |-> TRUE, error |-> Undefined,
          data |-> [instagramId |-> "instagram_" \o product.id,
                    message |-> "Product synced to Instagram successfully"]]

----
\* POST /api/sync/:platform/:productId (server.js:100-140)

newStatusClearsLastSync(product, platform, syncResult, t) ==
    [status |-> IF syncResult.success THEN "success" ELSE "failed",
     error |-> OrElse(syncResult.error, Null),
     lastSync |-> IF syncResult.success THEN toISOString(t) ELSE Null]

newStatusNeverStamps(product, platform, syncResult, t) ==
    [status |-> IF syncResult.success THEN "success" ELSE "failed",
     error |-> OrElse(syncResult.error, Null),
     lastSync |-> product.syncStatus[platform].lastSync]

newStatusPendingOnFailure(product, platform, syncResult, t) ==
    [status |-> IF syncResult.success THEN "success" ELSE "pending",
     error |-> OrElse(syncResult.error, Null),
     lastSync |-> IF syncResult.success
                  THEN toISOString(t)
                  ELSE product.syncStatus[platform].lastSync]

\* Lines 125-129: the status entry written for the synced platform
newStatus(product, platform, syncResult, t) ==
    [status |-> IF syncResult.success THEN "success" ELSE "failed",
     error |-> OrElse(syncResult.error, Null),
     lastSync |-> IF syncResult.success
                  THEN toISOString(t)
                  ELSE product.syncStatus[platform].lastSync]

applyResultReplacesMap(product, platform, syncResult, t) ==
    [product EXCEPT !.syncStatus =
        [q \in Platforms |->
            IF q = platform
            THEN newStatus(product, platform, syncResult, t)
            ELSE PendingStatus]]

applyResultStoresPriceSent(product, platform, syncResult, t) ==
    [product EXCEPT !.syncStatus[platform] = newStatus(product, platform, syncResult, t),
                    !.price = toString(product.price)]

applyResult(product, platform, syncResult, t) ==
    [product EXCEPT !.syncStatus[platform] = newStatus(product, platform, syncResult, t)]

SyncReadPlatformFirst(r, platform, productId, token) ==
    /\ Free(r)
    /\ LET req == [IdleReq EXCEPT !.kind = "sync", !.platform = platform,
                                  !.productId = productId, !.token = token,
                                  !.db = db, !.at = now]
       IN  IF platform \notin Platforms
           THEN Respond(r, req, 400, [error |-> Str("Invalid platform")])
           ELSE IF findIndex(db, productId) = 0
           THEN Respond(r, req, 404, [error |-> Str("Product not found")])
           ELSE reqs' = [reqs EXCEPT ![r] =
                    [req EXCEPT !.pc = "adapter",
                                !.before = db[findIndex(db, productId)].syncStatus[platform]]]
    /\ UNCHANGED <<now, tiktokRequestCount, tiktokResetTime, instagramTokens, db, nextId, accepted>>
    /\ UNCHANGED cvars

\* Lines 102-123 up to the adapter's delay: read the store, find the product,
\* pick the adapter
SyncRead(r, platform, productId, token) ==
    /\ Free(r)
    /\ LET req == [IdleReq EXCEPT !.kind = "sync", !.platform = platform,
                                  !.productId = productId, !.token = token,
                                  !.db = db, !.at = now]
       IN  IF findIndex(db, productId) = 0
           THEN Respond(r, req, 404, [error |-> Str("Product not found")])
           ELSE IF platform \notin Platforms
           THEN Respond(r, req, 400, [error |-> Str("Invalid platform")])
           ELSE reqs' = [reqs EXCEPT ![r] =
                    [req EXCEPT !.pc = "adapter",
                                !.before = db[findIndex(db, productId)].syncStatus[platform]]]
    /\ UNCHANGED <<now, tiktokRequestCount, tiktokResetTime, instagramTokens, db, nextId, accepted>>
    /\ UNCHANGED cvars

\* The adapter after its delay, then lines 125-129 on the handler's own copy
SyncAdapter(r) ==
    LET req == reqs[r]
        i == findIndex(req.db, req.productId)
        product == req.db[i]
        tt == syncToTikTok(product, tiktokRequestCount, tiktokResetTime, now)
        \* history: a window that has run out starts afresh with this request
        acceptedBefore ==
            IF now - tiktokResetTime > TIKTOK_RESET_INTERVAL THEN 0 ELSE accepted
        syncResult ==
            CASE req.platform = "shopify" -> syncToShopify(product)
              [] req.platform = "tiktok" -> tt.result
              [] req.platform = "instagram" ->
                    syncToInstagram(product, req.token, instagramTokens, now)
    IN  /\ req.pc = "adapter"
        /\ IF req.platform = "shopify" /\ shopifyThrows(product)
           THEN Respond(r, req, 500,
                        [error |-> Str("Sync failed"),
                         message |-> Str("Cannot read properties of null (reading 'toString')")])
           ELSE reqs' = [reqs EXCEPT ![r] =
                    [req EXCEPT
                        !.pc = "write",
                        !.at = now,
                        !.seen = IF req.platform = "tiktok" THEN acceptedBefore ELSE 0,
                        !.priceToSend = IF req.platform = "shopify"
                                        THEN shopifyPriceToSend(product)
                                        ELSE Undefined,
                        !.syncResult = syncResult,
                        !.db = [req.db EXCEPT ![i] =
                                   applyResult(product, req.platform, syncResult, now)]]]
        /\ IF req.platform = "tiktok"
           THEN /\ tiktokRequestCount' = tt.count
                /\ tiktokResetTime' = tt.resetTime
                /\ accepted' = acceptedBefore + (IF tt.result.success THEN 1 ELSE 0)
           ELSE UNCHANGED <<tiktokRequestCount, tiktokResetTime, accepted>>
        /\ UNCHANGED <<now, instagramTokens, db, nextId>>
        /\ UNCHANGED cvars

SyncWriteNeverAnswers(r) ==
    LET req == reqs[r]
    IN  /\ req.pc = "write"
        /\ req.kind = "sync"
        /\ db' = jsonDocument(req.db)
        /\ UNCHANGED reqs
        /\ UNCHANGED <<now, tiktokRequestCount, tiktokResetTime, instagramTokens, nextId, accepted>>
        /\ UNCHANGED cvars

\* Lines 131-136: write the handler's copy of the whole document, then answer
SyncWrite(r) ==
    LET req == reqs[r]
    IN  /\ req.pc = "write"
        /\ req.kind = "sync"
        /\ db' = jsonDocument(req.db)
        /\ Respond(r, req, 200, syncResponse(req.syncResult))
        /\ UNCHANGED <<now, tiktokRequestCount, tiktokResetTime, instagramTokens, nextId, accepted>>
        /\ UNCHANGED cvars

----
\* DELETE /api/products/:productId (server.js:142-164)
DeleteRead(r, productId) ==
    /\ Free(r)
    /\ LET req == [IdleReq EXCEPT !.kind = "delete", !.productId = productId,
                                  !.db = db, !.at = now]
           productIndex == findIndex(db, productId) - 1
       IN  IF productIndex = -1
           THEN Respond(r, req, 404, [error |-> Str("Product not found")])
           ELSE reqs' = [reqs EXCEPT ![r] =
                    [req EXCEPT !.pc = "write", !.db = splice(db, 0)]]
    /\ UNCHANGED <<now, tiktokRequestCount, tiktokResetTime, instagramTokens, db, nextId, accepted>>
    /\ UNCHANGED cvars

DeleteWrite(r) ==
    LET req == reqs[r]
    IN  /\ req.pc = "write"
        /\ req.kind = "delete"
        /\ db' = jsonDocument(req.db)
        /\ Respond(r, req, 200,
                   [success |-> TRUE, message |-> Str("Product deleted successfully")])
        /\ UNCHANGED <<now, tiktokRequestCount, tiktokResetTime, instagramTokens, nextId, accepted>>
        /\ UNCHANGED cvars

----
\* POST /api/products (server.js:68-98)
newProductExtraKey(id, body, t) ==
    [id |-> id,
     name |-> body.name,
     price |-> parseFloat(body.price),
     description |-> body.description,
     category |-> body.category,
     syncStatus |-> [p \in Platforms \cup {"facebook"} |-> PendingStatus],
     createdAt |-> toISOString(t)]

newProduct(id, body, t) ==
    [id |-> id,
     name |-> body.name,
     price |-> parseFloat(body.price),
     description |-> body.description,
     category |-> body.category,
     syncStatus |-> [p \in Platforms |-> PendingStatus],
     createdAt |-> toISOString(t)]

\* Request bodies tried: a numeric price, a price as numeric text, a price that
\* does not parse, and a body without a name
Bodies ==
    {[name |-> Str(n), price |-> pr, description |-> Str("d"), category |-> Str("Books")] :
        n \in {"", "Widget"}, pr \in {Num(10), Str("25"), Str("abc")}}

bodyInvalid(body) ==
    \/ ~Truthy(body.name)
    \/ body.price = Undefined
    \/ ~Truthy(body.description)
    \/ ~Truthy(body.category)

CreateRead(r, body) ==
    /\ Free(r)
    /\ nextId <= MaxProducts
    /\ LET req == [IdleReq EXCEPT !.kind = "create", !.at = now]
       IN  IF bodyInvalid(body)
           THEN /\ Respond(r, req, 400, [error |-> Str("All fields are required")])
                /\ UNCHANGED nextId
           ELSE /\ reqs' = [reqs EXCEPT ![r] =
                        [req EXCEPT !.pc = "write",
                                    !.productId = uuid(nextId),
                                    !.db = Append(db, newProduct(uuid(nextId), body, now))]]
                /\ nextId' = nextId + 1
    /\ UNCHANGED <<now, tiktokRequestCount, tiktokResetTime, instagramTokens, db, accepted>>
    /\ UNCHANGED cvars

CreateWrite(r) ==
    LET req == reqs[r]
    IN  /\ req.pc = "write"
        /\ req.kind = "create"
        /\ db' = jsonDocument(req.db)
        /\ Respond(r, req, 201, jsonProduct(req.db[Len(req.db)]))
        /\ UNCHANGED <<now, tiktokRequestCount, tiktokResetTime, instagramTokens, nextId, accepted>>
        /\ UNCHANGED cvars

----
TikTokResetKeepsWindow ==
    /\ tiktokRequestCount' = 0
    /\ tiktokResetTime' = tiktokResetTime
    /\ accepted' = 0
    /\ UNCHANGED <<now, instagramTokens, db, reqs, nextId>>
    /\ UNCHANGED cvars

\* POST /api/tiktok/reset (server.js:246-250)
TikTokReset ==
    /\ tiktokRequestCount' = 0
    /\ tiktokResetTime' = now
    /\ accepted' = 0
    /\ UNCHANGED <<now, instagramTokens, db, reqs, nextId>>
    /\ UNCHANGED cvars

\* POST /api/instagram/token (server.js:252-255)
IssueToken ==
    /\ instagramTokens' = generateInstagramToken(instagramTokens, now)
    /\ UNCHANGED <<now, tiktokRequestCount, tiktokResetTime, db, reqs, nextId, accepted>>
    /\ UNCHANGED cvars

\* The same handler as a request in a slot, its answer kept
TokenRequest(r) ==
    /\ Free(r)
    /\ instagramTokens' = generateInstagramToken(instagramTokens, now)
    /\ Respond(r, [IdleReq EXCEPT !.kind = "token", !.at = now], 200,
               [token |-> Str(tokenName(now)), expiresIn |-> Num(INSTAGRAM_TOKEN_EXPIRY)])
    /\ UNCHANGED <<now, tiktokRequestCount, tiktokResetTime, db, nextId, accepted>>
    /\ UNCHANGED cvars

----
\* The browser: components/ProductList.jsx and App.jsx.  A call of
\* App.handleSync uses the request slot of its number; between its axios.post
\* and the answer the server's handler runs in that slot.
syncKey(productId, platform) == productId \o "-" \o platform

NoFlags == [k \in {} |-> FALSE]

\* setSyncingStates({ [key]: value }): the object given becomes the state
setSyncingStates(prev, key, value) == [k \in {key} |-> value]

\* What the list shows for a pair: syncingStates[key], undefined counts as false
Syncing(productId, platform) ==
    /\ syncKey(productId, platform) \in DOMAIN syncingStates
    /\ syncingStates[syncKey(productId, platform)]

IdleCall == [pc |-> "idle", platform |-> "", productId |-> "", token |-> Undefined]

\* App.getInstagramToken with the server's handler: the token issued is set as
\* the App's state
getInstagramToken ==
    /\ instagramToken = Null
    /\ instagramTokens' = generateInstagramToken(instagramTokens, now)
    /\ instagramToken' = Str(tokenName(now))
    /\ UNCHANGED <<now, tiktokRequestCount, tiktokResetTime, db, reqs, nextId, accepted>>
    /\ UNCHANGED <<syncingStates, products, calls>>

\* A click on a sync button: ProductList.handleSync sets the flag and calls
\* App.handleSync, which runs up to its await of axios.post
handleSync(r, platform, productId) ==
    /\ Free(r)
    /\ calls[r].pc # "awaiting"
    /\ findIndex(products, productId) # 0
    /\ syncingStates' = setSyncingStates(syncingStates, syncKey(productId, platform), TRUE)
    /\ calls' = [calls EXCEPT ![r] =
            [pc |-> "awaiting", platform |-> platform, productId |-> productId,
             token |-> IF platform = "instagram" THEN instagramToken ELSE Undefined]]
    /\ reqs' = [reqs EXCEPT ![r] = IdleReq]
    /\ UNCHANGED <<now, tiktokRequestCount, tiktokResetTime, instagramTokens, db, nextId, accepted>>
    /\ UNCHANGED <<products, instagramToken>>

\* The request of call r reaches the server
syncArrives(r) ==
    /\ calls[r].pc = "awaiting"
    /\ reqs[r].pc = "idle"
    /\ SyncRead(r, calls[r].platform, calls[r].productId, calls[r].token)

\* axios resolves on a 2xx status and rejects on any other
axiosResolves(response) == response.status \in 200..299

\* App.jsx lines 156-160: the status entry the App works out from the response
clientStatus(data, t) ==
    [status |-> IF data.success THEN "success" ELSE "failed",
     error |-> IF "error" \in DOMAIN data THEN OrElse(data.error, Null) ELSE Null,
     lastSync |-> IF data.success THEN toISOString(t) ELSE Null]

\* The answer arrives and axios resolves: the rest of App.handleSync, then the
\* callback ProductList.handleSync gave to then()
handleSyncResolved(r) ==
    LET call == calls[r]
        productIndex == findIndex(products, call.productId)
    IN  /\ call.pc = "awaiting"
        /\ reqs[r].pc = "done"
        /\ axiosResolves(reqs[r].response)
        /\ productIndex # 0
        /\ products' = [products EXCEPT ![productIndex].syncStatus[call.platform] =
                            clientStatus(reqs[r].response.body, now)]
        /\ syncingStates' = setSyncingStates(syncingStates,
                                             syncKey(call.productId, call.platform), FALSE)
        /\ calls' = [calls EXCEPT ![r].pc = "resolved"]
        /\ UNCHANGED <<now, tiktokRequestCount, tiktokResetTime, instagramTokens, db, reqs, nextId, accepted>>
        /\ UNCHANGED instagramToken

\* The answer arrives and axios rejects, or the product is no longer in the
\* list (a TypeError at line 156): the promise of App.handleSync is rejected
\* and the callback given to then() never runs
handleSyncRejected(r) ==
    LET call == calls[r]
    IN  /\ call.pc = "awaiting"
        /\ reqs[r].pc = "done"
        /\ ~axiosResolves(reqs[r].response) \/ findIndex(products, call.productId) = 0
        /\ calls' = [calls EXCEPT ![r].pc = "rejected"]
        /\ UNCHANGED <<now, tiktokRequestCount, tiktokResetTime, instagramTokens, db, reqs, nextId, accepted>>
        /\ UNCHANGED <<syncingStates, products, instagramToken>>

----
\* The clock
Tick ==
    /\ now < MaxTicks * ClockStep
    /\ now' = now + ClockStep
    /\ UNCHANGED <<tiktokRequestCount, tiktokResetTime, instagramTokens, db, reqs, nextId, accepted>>
    /\ UNCHANGED cvars

\* products.json as n earlier POST /api/products calls left it
SeedBody ==
    [name |-> Str("Widget"), price |-> Num(10), description |-> Str("d"),
     category |-> Str("Books")]

Seeded(n) == [i \in 1..n |-> jsonProduct(newProduct(uuid(i), SeedBody, 0))]

InitWith(n) ==
    /\ now = 0
    /\ tiktokRequestCount = 0
    /\ tiktokResetTime = now
    /\ instagramTokens = NoTokens
    /\ db = Seeded(n)
    /\ reqs = [r \in Slots |-> IdleReq]
    /\ nextId = n + 1
    /\ accepted = 0
    /\ syncingStates = NoFlags
    /\ products = db
    /\ instagramToken = Null
    /\ calls = [r \in Slots |-> IdleCall]

\* The server starts on an empty store.  The page is taken once it has loaded
\* the product list; it has no token yet and no sync in flight.
Init == InitWith(0)

\* Request parameters tried
ProductIds == {uuid(n) : n \in 1..MaxProducts}
PlatformParams == Platforms \cup {"facebook"}
TokenParams ==
    {Undefined, Null, Str("never_issued")} \cup {Str(k) : k \in DOMAIN instagramTokens}

\* The token request the client makes when it starts (App.getInstagramToken)
FirstToken == DOMAIN instagramTokens = {} /\ IssueToken

\* Every endpoint, any overlap of handlers
Next ==
    \/ Tick
    \/ TikTokReset
    \/ IssueToken
    \/ \E r \in Slots, pl \in PlatformParams, id \in ProductIds, tk \in TokenParams :
          SyncRead(r, pl, id, IF pl = "instagram" THEN tk ELSE Undefined)
    \/ \E r \in Slots : SyncAdapter(r)
    \/ \E r \in Slots : SyncWrite(r)
    \/ \E r \in Slots, id \in ProductIds : DeleteRead(r, id)
    \/ \E r \in Slots : DeleteWrite(r)
    \/ \E r \in Slots, body \in Bodies : CreateRead(r, body)
    \/ \E r \in Slots : CreateWrite(r)

Spec == Init /\ [][Next]_vars

\* Short-video syncs of two stored products, one request after the other,
\* with administrative resets
NextTikTok ==
    \/ Tick
    \/ TikTokReset
    \/ \E id \in Ids(Seeded(2)) : SyncRead(1, "tiktok", id, Undefined)
    \/ SyncAdapter(1)
    \/ SyncWrite(1)

SpecTikTok == InitWith(2) /\ [][NextTikTok]_vars

\* Photo-share syncs of one stored product, one request after the other, with
\* tokens issued along the way
NextInstagram ==
    \/ Tick
    \/ IssueToken
    \/ \E tk \in TokenParams : SyncRead(1, "instagram", uuid(1), tk)
    \/ SyncAdapter(1)
    \/ SyncWrite(1)

SpecInstagram == InitWith(1) /\ [][NextInstagram]_vars

\* Products created with every kind of price, then synced to the commerce
\* platform, one request after the other
NextShopify ==
    \/ \E body \in Bodies : CreateRead(1, body)
    \/ CreateWrite(1)
    \/ \E id \in ProductIds : SyncRead(1, "shopify", id, Undefined)
    \/ SyncAdapter(1)
    \/ SyncWrite(1)

SpecShopify == Init /\ [][NextShopify]_vars

\* Products created and deleted, one request after the other
NextDelete ==
    \/ \E body \in Bodies : CreateRead(1, body)
    \/ CreateWrite(1)
    \/ \E id \in ProductIds : DeleteRead(1, id)
    \/ DeleteWrite(1)

SpecDelete == Init /\ [][NextDelete]_vars

\* Syncs of one stored product to any platform, one request after the other;
\* the client asks for a token once
NextSeq ==
    \/ Tick
    \/ FirstToken
    \/ \E pl \in PlatformParams, tk \in TokenParams :
          SyncRead(1, pl, uuid(1), IF pl = "instagram" THEN tk ELSE Undefined)
    \/ SyncAdapter(1)
    \/ SyncWrite(1)

SpecSeq == InitWith(1) /\ [][NextSeq]_vars

\* One request per slot, all issued before any is answered or after: the
\* handlers overlap in every way the awaits allow
NextRace ==
    \/ FirstToken
    \/ \E r \in Slots, pl \in Platforms, tk \in TokenParams :
          /\ reqs[r].pc = "idle"
          /\ SyncRead(r, pl, uuid(1), IF pl = "instagram" THEN tk ELSE Undefined)
    \/ \E r \in Slots : SyncAdapter(r)
    \/ \E r \in Slots : SyncWrite(r)

SpecRace == InitWith(1) /\ [][NextRace]_vars

\* The page with one stored product: one sync click per slot, the calls
\* overlapping in every way, while another party may delete the product
NextClient ==
    \/ getInstagramToken
    \/ \E r \in Slots, pl \in Platforms, id \in Ids(products) :
          /\ calls[r].pc = "idle"
          /\ reqs[r].pc = "idle"
          /\ handleSync(r, pl, id)
    \/ \E r \in Slots : syncArrives(r)
    \/ \E r \in Slots : SyncAdapter(r)
    \/ \E r \in Slots : SyncWrite(r)
    \/ \E r \in Slots : handleSyncResolved(r)
    \/ \E r \in Slots : handleSyncRejected(r)
    \/ \E r \in Slots :
          /\ calls[r].pc = "idle"
          /\ reqs[r].pc = "idle"
          /\ DeleteRead(r, uuid(1))
    \/ \E r \in Slots : DeleteWrite(r)

SpecClient == InitWith(1) /\ [][NextClient]_vars

\* Products created, synced to any platform name and deleted, one request after
\* the other; at most MaxStored products at a time.  The ids asked for are those
\* in the store and one that is not.
LifeBodies == {SeedBody, [SeedBody EXCEPT !.name = Str("")]}

LifeIds == Ids(db) \cup {uuid(nextId)}

NextLife ==
    \/ FirstToken
    \/ \E body \in LifeBodies : Len(db) < MaxStored /\ CreateRead(1, body)
    \/ CreateWrite(1)
    \/ \E pl \in PlatformParams, id \in LifeIds,
          tk \in {Undefined} \cup {Str(k) : k \in DOMAIN instagramTokens} :
          SyncRead(1, pl, id, IF pl = "instagram" THEN tk ELSE Undefined)
    \/ SyncAdapter(1)
    \/ SyncWrite(1)
    \/ \E id \in LifeIds : DeleteRead(1, id)
    \/ DeleteWrite(1)

SpecLife == Init /\ [][NextLife]_vars

\* The page with one stored product: sync clicks one after the other, each
\* made when the call before it has finished
NextClientSeq ==
    \/ Tick
    \/ getInstagramToken
    \/ \E pl \in Platforms : handleSync(1, pl, uuid(1))
    \/ syncArrives(1)
    \/ SyncAdapter(1)
    \/ SyncWrite(1)
    \/ handleSyncResolved(1)

SpecClientSeq == InitWith(1) /\ [][NextClientSeq]_vars

\* One request per slot, syncs of the stored product overlapping with its
\* delete and with resets.  A handler that waits for its adapter's timer or for
\* its write is resumed in the end: setTimeout fires and the file write
\* completes, whatever else the event loop is given to do.
NextLive ==
    \/ TikTokReset
    \/ FirstToken
    \/ \E r \in Slots, pl \in Platforms,
          tk \in {Undefined} \cup {Str(k) : k \in DOMAIN instagramTokens} :
          /\ reqs[r].pc = "idle"
          /\ SyncRead(r, pl, uuid(1), IF pl = "instagram" THEN tk ELSE Undefined)
    \/ \E r \in Slots : SyncAdapter(r)
    \/ \E r \in Slots : SyncWrite(r)
    \/ \E r \in Slots :
          /\ reqs[r].pc = "idle"
          /\ DeleteRead(r, uuid(1))
    \/ \E r \in Slots : DeleteWrite(r)

Fairness == \A r \in Slots : WF_vars(SyncAdapter(r)) /\ WF_vars(SyncWrite(r))

SpecLive == InitWith(1) /\ [][NextLive]_vars /\ Fairness

\* Short-video syncs of the stored product from every slot, each slot taking a
\* new request when its last one is answered, with resets: the handlers overlap
\* in every way the awaits allow, all within one window
NextTikTokRace ==
    \/ TikTokReset
    \/ \E r \in Slots : SyncRead(r, "tiktok", uuid(1), Undefined)
    \/ \E r \in Slots : SyncAdapter(r)
    \/ \E r \in Slots : SyncWrite(r)

SpecTikTokRace == InitWith(1) /\ [][NextTikTokRace]_vars

\* Token requests from every slot, at any clock reading
NextTokens ==
    \/ Tick
    \/ \E r \in Slots : TokenRequest(r)

SpecTokens == Init /\ [][NextTokens]_vars

\* One request per slot on a store of two products: syncs of either product,
\* a delete, a create, overlapping in every way the awaits allow
NextStoreRace ==
    \/ \E r \in Slots, pl \in Platforms, id \in Ids(Seeded(2)) :
          /\ reqs[r].pc = "idle"
          /\ SyncRead(r, pl, id, Undefined)
    \/ \E r \in Slots : SyncAdapter(r)
    \/ \E r \in Slots : SyncWrite(r)
    \/ \E r \in Slots, id \in Ids(Seeded(2)) :
          /\ reqs[r].pc = "idle"
          /\ DeleteRead(r, id)
    \/ \E r \in Slots : DeleteWrite(r)
    \/ \E r \in Slots :
          /\ reqs[r].pc = "idle"
          /\ CreateRead(r, SeedBody)
    \/ \E r \in Slots : CreateWrite(r)

SpecStoreRace == InitWith(2) /\ [][NextStoreRace]_vars

\* Two stored products synced to the three platforms while further products
\* are created, with resets and the client's token request, one request after
\* the other; a photo-share sync carries the client's token once it has one
GrowTokens ==
    IF DOMAIN instagramTokens = {}
    THEN {Undefined}
    ELSE {Str(k) : k \in DOMAIN instagramTokens}

NextGrow ==
    \/ TikTokReset
    \/ FirstToken
    \/ CreateRead(1, SeedBody)
    \/ CreateWrite(1)
    \/ \E pl \in Platforms, id \in Ids(Seeded(2)), tk \in GrowTokens :
          SyncRead(1, pl, id, IF pl = "instagram" THEN tk ELSE Undefined)
    \/ SyncAdapter(1)
    \/ SyncWrite(1)

SpecGrow == InitWith(2) /\ [][NextGrow]_vars

----
\* Claims

Evaluated(r) ==
    /\ reqs[r].kind = "sync"
    /\ \/ reqs[r].pc = "write"
       \/ reqs[r].pc = "done" /\ reqs[r].response.status = 200

Answered(r) ==
    /\ reqs[r].kind = "sync"
    /\ reqs[r].pc = "done"
    /\ reqs[r].response.status = 200

Stored(d, productId) == d[findIndex(d, productId)]

Outcome(success) == IF success THEN "success" ELSE "failed"

\* C1: when two sync calls for two different platforms of the same product, the
\* only requests made, have both been answered, the persisted product carries
\* the outcome of both: each of the two platform entries shows the success or
\* failure that was returned.
C1_BothOutcomesPersisted ==
    \A a, b \in Slots :
        (/\ Answered(a)
         /\ Answered(b)
         /\ \A c \in Slots \ {a, b} : reqs[c].pc = "idle"
         /\ reqs[a].productId = reqs[b].productId
         /\ reqs[a].platform # reqs[b].platform)
        => LET p == Stored(db, reqs[a].productId)
           IN  /\ p.syncStatus[reqs[a].platform].status
                    = Outcome(reqs[a].response.body.success)
               /\ p.syncStatus[reqs[b].platform].status
                    = Outcome(reqs[b].response.body.success)

\* C2: a short-video sync evaluated when TIKTOK_RATE_LIMIT syncs have already
\* been accepted in the current window is denied: its result, and the response
\* once sent, have success = false, whatever the product.
C2_NextSyncDenied ==
    \A r \in Slots :
        (Evaluated(r) /\ reqs[r].platform = "tiktok" /\ reqs[r].seen = TIKTOK_RATE_LIMIT)
        => /\ ~reqs[r].syncResult.success
           /\ reqs[r].pc = "done" => ~reqs[r].response.body.success

C2_Witness ==
    \E r \in Slots :
        /\ Answered(r)
        /\ reqs[r].platform = "tiktok"
        /\ reqs[r].seen = TIKTOK_RATE_LIMIT
        /\ ~reqs[r].response.body.success
        /\ reqs[r].productId = uuid(2)

\* C3: every short-video sync denied by the rate limiter is answered with a
\* retryAfter member that is greater than 0.
C3_DenialCarriesRetryAfter ==
    \A r \in Slots :
        (/\ Answered(r)
         /\ reqs[r].platform = "tiktok"
         /\ ~reqs[r].response.body.success)
        => /\ "retryAfter" \in DOMAIN reqs[r].response.body
           /\ reqs[r].response.body.retryAfter > 0

\* C4: a short-video sync evaluated after the window has run out
\* (now - tiktokResetTime > TIKTOK_RESET_INTERVAL) is accepted, and right after
\* it tiktokRequestCount is 1 and tiktokResetTime is the time of evaluation.
C4_AcceptedAfterWindow ==
    [][\A r \in Slots :
        (/\ reqs[r].pc = "adapter"
         /\ reqs[r].platform = "tiktok"
         /\ reqs'[r].pc # "adapter"
         /\ now - tiktokResetTime > TIKTOK_RESET_INTERVAL)
        => /\ reqs'[r].syncResult.success
           /\ tiktokRequestCount' = 1
           /\ tiktokResetTime' = now]_vars

\* a sync accepted in a fresh window while the store still shows the denial of
\* the product's previous sync
C4_Witness ==
    \E r \in Slots :
        /\ reqs[r].pc = "write"
        /\ reqs[r].platform = "tiktok"
        /\ reqs[r].syncResult.success
        /\ tiktokRequestCount = 1
        /\ tiktokResetTime = now
        /\ now > TIKTOK_RESET_INTERVAL
        /\ Stored(db, reqs[r].productId).syncStatus["tiktok"].status = "failed"

\* C5: a photo-share sync whose token was issued and has expired when the
\* adapter runs succeeds, and its response carries a new token that differs
\* from the expired one and is valid at that moment.
C5_ExpiredTokenRefreshed ==
    \A r \in Slots :
        (/\ Answered(r)
         /\ reqs[r].platform = "instagram"
         /\ reqs[r].token.t = "string"
         /\ reqs[r].token.s \in DOMAIN instagramTokens
         /\ reqs[r].at - instagramTokens[reqs[r].token.s] >= INSTAGRAM_TOKEN_EXPIRY)
        => /\ reqs[r].response.body.success
           /\ "newToken" \in DOMAIN reqs[r].response.body
           /\ reqs[r].response.body.newToken # reqs[r].token
           /\ isInstagramTokenValid(reqs[r].response.body.newToken,
                                    instagramTokens, reqs[r].at)

\* A photo-share request without a token, or with one the registry does not hold
BadTokenReq(req) ==
    /\ req.kind = "sync"
    /\ req.platform = "instagram"
    /\ \/ ~Truthy(req.token)
       \/ req.token.s \notin DOMAIN instagramTokens

BadToken(r) == BadTokenReq(reqs[r])

\* C6, with the retryable flag: a photo-share sync without a token, or with a
\* token never issued, is answered with an authentication failure that carries
\* retryable = false, and no step of it adds a token to the registry.
C6_AuthFailureNotRetryable ==
    [][\A r \in Slots :
        (BadTokenReq(reqs'[r]) /\ reqs'[r] # reqs[r])
        => /\ instagramTokens' = instagramTokens
           /\ reqs'[r].pc = "done" =>
                /\ ~reqs'[r].response.body.success
                /\ reqs'[r].response.body.error
                     = Str("Authentication failed: Token expired or invalid")
                /\ "retryable" \in DOMAIN reqs'[r].response.body
                /\ reqs'[r].response.body.retryable = FALSE]_vars

\* C6, without the flag: such a sync is answered 200 with success = false and
\* the error "Authentication failed: Token expired or invalid", the response has
\* no retryable member, and no step of it adds a token to the registry.
C6_AuthFailure ==
    [][\A r \in Slots :
        (BadTokenReq(reqs'[r]) /\ reqs'[r] # reqs[r])
        => /\ instagramTokens' = instagramTokens
           /\ reqs'[r].pc = "write" => ~reqs'[r].syncResult.success
           /\ reqs'[r].pc = "done" =>
                /\ reqs'[r].response.status = 200
                /\ ~reqs'[r].response.body.success
                /\ reqs'[r].response.body.error
                     = Str("Authentication failed: Token expired or invalid")
                /\ "retryable" \notin DOMAIN reqs'[r].response.body]_vars

C6_Witness ==
    /\ DOMAIN instagramTokens # {}
    /\ \E r \in Slots :
        /\ Answered(r)
        /\ BadToken(r)
        /\ reqs[r].token = Str("never_issued")
        /\ ~reqs[r].response.body.success

\* C7: a commerce sync of a stored product whose price is a number succeeds with
\* the external id made of the platform prefix and the product id, and the price
\* handed to the remote call is a number, not text.
C7_NumericPriceSucceeds ==
    \A r \in Slots :
        (/\ reqs[r].kind = "sync"
         /\ reqs[r].pc = "write"
         /\ reqs[r].platform = "shopify"
         /\ typeof(Stored(reqs[r].db, reqs[r].productId).price) = "number")
        => /\ typeof(reqs[r].priceToSend) = "number"
           /\ reqs[r].syncResult.success
           /\ reqs[r].syncResult.data.shopifyId = "shopify_" \o reqs[r].productId

Without(d, productId) == SelectSeq(d, LAMBDA p : p.id # productId)

\* C8: a delete of product X answered with success on a store of three products
\* leaves the store holding exactly the other two, unchanged and in order,
\* wherever X stands.
C8_DeleteRemovesThatProduct ==
    [][\A r \in Slots :
        (/\ reqs[r].kind = "delete"
         /\ reqs[r].pc = "write"
         /\ reqs'[r].pc = "done"
         /\ Len(db) = 3)
        => db' = Without(db, reqs[r].productId)]_vars

\* C9: with requests issued one after the other, no step of a sync call changes
\* the persisted status of any platform other than the one it syncs: state,
\* error and lastSync of the other two entries stay as they were.
C9_OtherPlatformsUntouched ==
    [][\A r \in Slots :
        (reqs'[r].kind = "sync" /\ reqs'[r] # reqs[r])
        => /\ Len(db') = Len(db)
           /\ \A i \in 1..Len(db), q \in Platforms :
                (db[i].id # reqs'[r].productId \/ q # reqs'[r].platform)
                => db'[i].syncStatus[q] = db[i].syncStatus[q]]_vars

\* platform B has just been synced and written while platform A still shows the
\* success recorded before
C9_Witness ==
    \E r \in Slots, A \in Platforms :
        /\ Answered(r)
        /\ A # reqs[r].platform
        /\ Stored(db, reqs[r].productId).syncStatus[reqs[r].platform].status # "pending"
        /\ Stored(db, reqs[r].productId).syncStatus[A].status = "success"
        /\ Stored(db, reqs[r].productId).syncStatus[A].lastSync # toISOString(now)

\* C10: a failed sync persists the state failed for its platform and keeps the
\* lastSync the store held for that platform when the call read it.
C10_FailureKeepsLastSync ==
    [][\A r \in Slots :
        (/\ reqs[r].kind = "sync"
         /\ reqs[r].pc = "write"
         /\ reqs'[r].pc = "done"
         /\ ~reqs[r].syncResult.success)
        => LET s == Stored(db', reqs[r].productId).syncStatus[reqs[r].platform]
           IN  /\ s.status = "failed"
               /\ s.lastSync = reqs[r].before.lastSync]_vars

C10_Witness ==
    \E r \in Slots :
        /\ Answered(r)
        /\ ~reqs[r].response.body.success
        /\ reqs[r].before.lastSync # Null
        /\ Stored(db, reqs[r].productId).syncStatus[reqs[r].platform].status = "failed"
        /\ Stored(db, reqs[r].productId).syncStatus[reqs[r].platform].lastSync
             = reqs[r].before.lastSync

InFlight(r) == calls[r].pc = "awaiting"

SamePair(a, b) ==
    /\ calls[a].productId = calls[b].productId
    /\ calls[a].platform = calls[b].platform

\* C11: while a client sync call is in flight and no other call is for its
\* (productId, platform) pair, the in-flight flag of its pair is true: neither
\* the start nor the completion of a call for another pair changes it.
C11_FlagsIndependent ==
    \A a \in Slots :
        (/\ InFlight(a)
         /\ \A b \in Slots \ {a} : calls[b].pc # "idle" => ~SamePair(a, b))
        => Syncing(calls[a].productId, calls[a].platform)

Finished(r) == calls[r].pc \in {"resolved", "rejected"}

\* C12: once a client sync call has finished, whether its request was answered
\* with success, with a business failure or was rejected, and no other call for
\* the same pair is in flight, the in-flight flag of its pair is not true.
C12_FlagClearedOnEveryExit ==
    \A a \in Slots :
        (/\ Finished(a)
         /\ \A b \in Slots \ {a} : InFlight(b) => ~SamePair(a, b))
        => ~Syncing(calls[a].productId, calls[a].platform)

\* C13: a sync request for a product id that is not in the store is answered
\* 404 "Product not found", and one for a stored product with a platform name
\* outside Platforms is answered 400 "Invalid platform"; the answer is given in
\* the step that read the store, without an adapter result, and that step leaves
\* the store, tiktokRequestCount, tiktokResetTime and instagramTokens as they were.
C13_RejectedWithoutEffect ==
    [][\A r \in Slots :
        (/\ Free(r)
         /\ reqs'[r] # reqs[r]
         /\ reqs'[r].kind = "sync"
         /\ \/ findIndex(db, reqs'[r].productId) = 0
            \/ reqs'[r].platform \notin Platforms)
        => /\ reqs'[r].pc = "done"
           /\ reqs'[r].response.status
                = IF findIndex(db, reqs'[r].productId) = 0 THEN 404 ELSE 400
           /\ reqs'[r].response.body.error
                = IF findIndex(db, reqs'[r].productId) = 0
                  THEN Str("Product not found")
                  ELSE Str("Invalid platform")
           /\ reqs'[r].syncResult = NoResult
           /\ UNCHANGED <<db, tiktokRequestCount, tiktokResetTime, instagramTokens>>]_vars

\* an unknown platform name refused for a stored product while the limiter has
\* counted syncs and the registry holds a token
C13_Witness ==
    \E r \in Slots :
        /\ reqs[r].kind = "sync"
        /\ reqs[r].pc = "done"
        /\ reqs[r].response.status = 400
        /\ findIndex(db, reqs[r].productId) # 0
        /\ tiktokRequestCount > 0
        /\ DOMAIN instagramTokens # {}

\* C14: every sync call that reached an adapter is answered 200 with the
\* adapter's result, never with an error status, and when it is answered the
\* persisted status of its platform agrees with the answer: success, no error
\* and lastSync at the time of the call when success is true; failed with the
\* answer's error when success is false.
C14_PersistedAgreesWithResult ==
    [][\A r \in Slots :
        (/\ reqs[r].kind = "sync"
         /\ reqs[r].pc \in {"adapter", "write"}
         /\ reqs'[r].pc = "done")
        => /\ reqs'[r].response.status = 200
           /\ LET s == Stored(db', reqs[r].productId).syncStatus[reqs[r].platform]
                  body == reqs'[r].response.body
              IN  IF body.success
                  THEN /\ s.status = "success"
                       /\ s.error = Null
                       /\ s.lastSync = toISOString(reqs[r].at)
                  ELSE /\ s.status = "failed"
                       /\ s.error = body.error]_vars

C16_ThreePlatformKeys ==
    \A i \in 1..Len(db) :
        /\ DOMAIN db[i].syncStatus = Platforms
        /\ \A q \in Platforms :
              db[i].syncStatus[q].status \in {"pending", "success", "failed"}

\* a product created after a delete, synced, and then asked to sync to an
\* unknown platform
C16_Witness ==
    /\ Len(db) > 0
    /\ db[1].id # uuid(1)
    /\ db[1].syncStatus["tiktok"].status = "success"
    /\ db[1].syncStatus["shopify"].status = "failed"
    /\ reqs[1].kind = "sync"
    /\ reqs[1].platform \notin Platforms
    /\ reqs[1].productId = db[1].id
    /\ reqs[1].pc = "done"

\* C17: a photo-share sync is accepted exactly when its token is in the
\* registry and less than INSTAGRAM_TOKEN_EXPIRY ms have passed since the token
\* was issued: it is refused without a token, with a token never issued, and
\* with an issued token from the instant the age equals the expiry; it is
\* accepted with an issued token at every earlier instant.
C17_ValidIffIssuedAndFresh ==
    \A r \in Slots :
        (Evaluated(r) /\ reqs[r].platform = "instagram")
        => (reqs[r].syncResult.success
            <=> /\ reqs[r].token.t = "string"
                /\ reqs[r].token.s \in DOMAIN instagramTokens
                /\ reqs[r].at - instagramTokens[reqs[r].token.s] < INSTAGRAM_TOKEN_EXPIRY)

\* a token refused at the very instant its age equals the expiry, after a sync
\* with a token had been accepted
C17_Witness ==
    \E r \in Slots :
        /\ Answered(r)
        /\ reqs[r].platform = "instagram"
        /\ reqs[r].token.t = "string"
        /\ reqs[r].token.s \in DOMAIN instagramTokens
        /\ reqs[r].at - instagramTokens[reqs[r].token.s] = INSTAGRAM_TOKEN_EXPIRY
        /\ ~reqs[r].response.body.success
        /\ Stored(db, reqs[r].productId).syncStatus["instagram"].lastSync # Null

\* C18: the reset request, in any state, leaves tiktokRequestCount at 0 and
\* tiktokResetTime at the current time; and a short-video sync evaluated when
\* fewer than TIKTOK_RATE_LIMIT syncs have been accepted since the last reset
\* or start of window is accepted, so that after a reset of an exhausted
\* limiter the next TIKTOK_RATE_LIMIT syncs are accepted.
C18_ResetRestoresQuota ==
    [][/\ (reqs' = reqs /\ now' = now)
            => (tiktokRequestCount' = 0 /\ tiktokResetTime' = now)
       /\ \A r \in Slots :
            (/\ reqs[r].pc = "adapter"
             /\ reqs[r].platform = "tiktok"
             /\ reqs'[r].pc # "adapter"
             /\ reqs'[r].seen < TIKTOK_RATE_LIMIT)
            => reqs'[r].syncResult.success]_vars

\* the limiter was exhausted (the other product's sync was denied), then reset
\* in the same window, and the third sync after the reset has been accepted
C18_Witness ==
    \E r \in Slots :
        /\ Answered(r)
        /\ reqs[r].platform = "tiktok"
        /\ reqs[r].productId = uuid(1)
        /\ reqs[r].seen = TIKTOK_RATE_LIMIT - 1
        /\ reqs[r].response.body.success
        /\ Stored(db, uuid(2)).syncStatus["tiktok"].status = "failed"
        /\ Stored(db, uuid(2)).syncStatus["tiktok"].lastSync = Null
        /\ Stored(db, uuid(1)).syncStatus["tiktok"].lastSync = toISOString(ClockStep)
        /\ now = ClockStep
        /\ tiktokResetTime = now
        /\ tiktokRequestCount = TIKTOK_RATE_LIMIT

\* C19: when the client has merged the answer to a sync of (product, platform)
\* into its product list, its status entry for the pair matches the one in the
\* store: the same status, the same error, and lastSync set in both or in
\* neither, after a success and after a failure.
C19_ClientMatchesStore ==
    [][\A r \in Slots :
        (calls[r].pc = "awaiting" /\ calls'[r].pc = "resolved")
        => LET c == Stored(products', calls[r].productId).syncStatus[calls[r].platform]
               s == Stored(db', calls[r].productId).syncStatus[calls[r].platform]
           IN  /\ c.status = s.status
               /\ c.error = s.error
               /\ (c.lastSync = Null) <=> (s.lastSync = Null)]_vars

\* C20: every sync call whose handler has started, and waits for its adapter or
\* for its write, is answered in the end with the adapter's result (200) or with
\* an error (500), also when other syncs, a delete and resets run in between.
C20_SyncResolves ==
    \A r \in Slots :
        (reqs[r].kind = "sync" /\ reqs[r].pc \in {"adapter", "write"})
        ~> (reqs[r].pc = "done" /\ reqs[r].response.status \in {200, 500})

\* a sync answered although the product's delete and a reset ran while it was
\* in flight: the delete was answered, the count is back at 0, and the sync's
\* write has put the product back
C20_Witness ==
    \E a, b \in Slots :
        /\ Answered(a)
        /\ reqs[a].platform = "tiktok"
        /\ reqs[a].response.body.success
        /\ reqs[b].kind = "delete"
        /\ reqs[b].pc = "done"
        /\ reqs[b].response.status = 200
        /\ tiktokRequestCount = 0
        /\ Len(db) = 1

\* C21: tiktokRequestCount stays between 0 and TIKTOK_RATE_LIMIT in every
\* reachable state, however short-video syncs and resets overlap; the step in
\* which a handler's adapter runs adds exactly 1 to the count (taken as 0 when
\* the window has run out) if the sync is accepted and leaves the count as it
\* was if the sync is denied.
C21_CountWithinLimit ==
    /\ tiktokRequestCount \in 0..TIKTOK_RATE_LIMIT
    /\ [][/\ tiktokRequestCount' \in 0..TIKTOK_RATE_LIMIT
          /\ \A r \in Slots :
                (/\ reqs[r].pc = "adapter"
                 /\ reqs[r].platform = "tiktok"
                 /\ reqs'[r].pc # "adapter")
                => tiktokRequestCount' =
                     IF reqs'[r].syncResult.success
                     THEN (IF now - tiktokResetTime > TIKTOK_RESET_INTERVAL
                           THEN 0 ELSE tiktokRequestCount) + 1
                     ELSE tiktokRequestCount]_vars

\* two handlers past their adapters at once, one accepted as the last of the
\* window and one denied, after a reset with a write still pending
C21_Witness ==
    \E a, b \in Slots :
        /\ reqs[a].pc = "write"
        /\ reqs[b].pc = "write"
        /\ reqs[a].platform = "tiktok"
        /\ reqs[b].platform = "tiktok"
        /\ reqs[a].syncResult.success
        /\ reqs[a].seen = TIKTOK_RATE_LIMIT - 1
        /\ ~reqs[b].syncResult.success
        /\ tiktokRequestCount = TIKTOK_RATE_LIMIT
        /\ Stored(db, uuid(1)).syncStatus["tiktok"].status = "failed"

\* C22: the short-video limit is one quota for all products: the number of
\* short-video syncs accepted in the current window, counted over all products,
\* is never more than TIKTOK_RATE_LIMIT, and it is the one counter
\* tiktokRequestCount that holds it.
C22_OneQuotaForAllProducts ==
    /\ accepted <= TIKTOK_RATE_LIMIT
    /\ tiktokRequestCount = accepted

\* the second product is denied its first sync because the syncs accepted in
\* the window, all of the first product, have used the quota
C22_Witness ==
    /\ Answered(1)
    /\ reqs[1].platform = "tiktok"
    /\ reqs[1].productId = uuid(2)
    /\ ~reqs[1].response.body.success
    /\ Stored(db, uuid(2)).syncStatus["tiktok"].status = "failed"
    /\ Stored(db, uuid(2)).syncStatus["tiktok"].lastSync = Null
    /\ Stored(db, uuid(1)).syncStatus["tiktok"].status = "success"
    /\ accepted = TIKTOK_RATE_LIMIT
    /\ now = 0

\* C23: every token request is answered with a token that was not in the
\* registry before it, so that the registry grows by exactly one entry with
\* each request, also for two requests at the same clock reading; and no step
\* removes an entry from the registry.
C23_IssueReturnsNewToken ==
    [][/\ DOMAIN instagramTokens \subseteq DOMAIN instagramTokens'
       /\ \A r \in Slots :
            (reqs'[r].kind = "token" /\ reqs'[r] # reqs[r])
            => /\ reqs'[r].response.body.token.s \notin DOMAIN instagramTokens
               /\ Cardinality(DOMAIN instagramTokens')
                    = Cardinality(DOMAIN instagramTokens) + 1]_vars

\* C24: when two sync calls for two different products, the only requests
\* made, have both been answered, the store shows the outcome of both: each
\* product's entry for the platform synced has the success or failure that was
\* returned, whichever handler wrote last.
C24_BothProductsPersisted ==
    \A a, b \in Slots :
        (/\ Answered(a)
         /\ Answered(b)
         /\ \A c \in Slots \ {a, b} : reqs[c].pc = "idle"
         /\ reqs[a].productId # reqs[b].productId)
        => /\ Stored(db, reqs[a].productId).syncStatus[reqs[a].platform].status
                = Outcome(reqs[a].response.body.success)
           /\ Stored(db, reqs[b].productId).syncStatus[reqs[b].platform].status
                = Outcome(reqs[b].response.body.success)

\* C25: a write of a sync call's result changes neither which products the
\* store holds nor their order: it does not bring back a product that a delete
\* answered in the meantime has removed, and it does not remove a product that
\* a create answered in the meantime has added.
C25_SyncWriteKeepsMembership ==
    [][\A r \in Slots :
        (/\ reqs[r].kind = "sync"
         /\ reqs[r].pc = "write"
         /\ reqs'[r].pc = "done")
        => [i \in 1..Len(db') |-> db'[i].id] = [i \in 1..Len(db) |-> db[i].id]]_vars

\* C26: with requests handled one after the other, an entry of the store that
\* shows success or failed is never pending again: no step of a sync, a reset,
\* a token request or a create takes a stored product's platform entry from
\* success or failed back to pending.
C26_NeverBackToPending ==
    [][\A i \in 1..Len(db), q \in Platforms :
        db[i].syncStatus[q].status # "pending"
        => /\ findIndex(db', db[i].id) # 0
           /\ Stored(db', db[i].id).syncStatus[q].status # "pending"]_vars

\* a product has just been created while both older products show outcomes of
\* their syncs, some from before a reset
C26_Witness ==
    /\ Len(db) = 3
    /\ reqs[1].kind = "create"
    /\ reqs[1].pc = "done"
    /\ db[1].syncStatus["tiktok"].status = "failed"
    /\ db[1].syncStatus["instagram"].status = "success"
    /\ db[1].syncStatus["shopify"].status = "failed"
    /\ db[2].syncStatus["tiktok"].status = "success"
    /\ tiktokRequestCount = 0

\* C27: no step of a commerce or photo-share sync changes tiktokRequestCount or
\* tiktokResetTime, no step of a commerce or short-video sync changes the
\* registry of tokens, and no step of any sync changes a stored product's id,
\* name, price, description, category or createdAt.
C27_AdaptersKeepToTheirState ==
    [][\A r \in Slots :
        (reqs'[r].kind = "sync" /\ reqs'[r] # reqs[r])
        => /\ reqs'[r].platform \in {"shopify", "instagram"}
                => UNCHANGED <<tiktokRequestCount, tiktokResetTime>>
           /\ reqs'[r].platform \in {"shopify", "tiktok"}
                => UNCHANGED instagramTokens
           /\ Len(db') = Len(db)
           /\ \A i \in 1..Len(db) :
                [db'[i] EXCEPT !.syncStatus = db[i].syncStatus] = db[i]]_vars

\* a commerce sync answered while the limiter has counted syncs and the
\* registry holds a token; the product still has its numeric price
C27_Witness ==
    \E r \in Slots :
        /\ Answered(r)
        /\ reqs[r].platform = "shopify"
        /\ tiktokRequestCount > 0
        /\ DOMAIN instagramTokens # {}
        /\ Stored(db, reqs[r].productId).price = Num(10)
        /\ Stored(db, reqs[r].productId).syncStatus["shopify"].status = "failed"
        /\ Stored(db, reqs[r].productId).syncStatus["tiktok"].status = "success"
====
